---- MODULE Spec2Model ----
(***************************************************************************)
(* A model of turing_simulator.py: the Tape, the TransitionFunction and    *)
(* the TuringMachine (load_input / step / run / get_config), together with *)
(* the machine built by create_on1n_machine.                               *)
(*                                                                         *)
(* Python strings are sequences of one-character strings; a dict is a      *)
(* function whose DOMAIN is its key set; None is the string "None" for a   *)
(* state, NoTape for the tape and NoTrans for a failed table lookup.       *)
(***************************************************************************)
EXTENDS Integers, Sequences, FiniteSets, TLC

VARIABLES tm, current_state, tape, call, ret

vars == <<tm, current_state, tape, call, ret>>

(***************************************************************************)
(* Bounds of the model and constants of the program.                       *)
(***************************************************************************)
MaxInputLen == 4
MaxHead == 7
MaxBudget == 3

WindowPad == 5
WindowHalf == 25
WindowLimit == 50
TestMaxSteps == 1000

None == "None"
NoTape == [none |-> TRUE]
NoTrans == <<>>

Range(s) == {s[i] : i \in 1..Len(s)}
Max(S) == CHOOSE x \in S : \A y \in S : y <= x
Min(S) == CHOOSE x \in S : \A y \in S : x <= y
Abs(n) == IF n < 0 THEN -n ELSE n

(***************************************************************************)
(* class Tape                                                              *)
(***************************************************************************)
Tape_off1(initial_content, blank) ==
    [content |-> [i \in 1..Len(initial_content) |-> initial_content[i]],
     blank |-> blank,
     head |-> 0]

Tape(initial_content, blank) ==
    [content |-> [i \in 0..(Len(initial_content) - 1) |-> initial_content[i + 1]],
     blank |-> blank,
     head |-> 0]

read(t) ==
    IF t.head \in DOMAIN t.content THEN t.content[t.head] ELSE t.blank

delete(content, pos) == [p \in (DOMAIN content) \ {pos} |-> content[p]]

store(content, pos, sym) ==
    [p \in (DOMAIN content) \cup {pos} |-> IF p = pos THEN sym ELSE content[p]]

write_lost(t, sym) == t

write(t, sym) ==
    IF sym = t.blank /\ t.head \notin DOMAIN t.content
    THEN IF t.head \in DOMAIN t.content
         THEN [t EXCEPT !.content = delete(t.content, t.head)]
         ELSE t
    ELSE [t EXCEPT !.content = store(t.content, t.head, sym)]

move_no_left(t, direction) ==
    IF direction = "R" THEN [t EXCEPT !.head = t.head + 1] ELSE t

move(t, direction) ==
    IF direction = "R" THEN [t EXCEPT !.head = t.head + 1]
    ELSE IF direction = "L" THEN [t EXCEPT !.head = t.head - 1]
    ELSE t

Ellipsis == <<".", ".", ".">>

cell(t, pos) ==
    LET sym == IF pos \in DOMAIN t.content THEN t.content[pos] ELSE t.blank
    IN  IF pos = t.head THEN <<"[", sym, "]">> ELSE <<sym>>

RECURSIVE cells(_, _, _)
cells(t, pos, end) ==
    IF pos > end THEN <<>> ELSE cell(t, pos) \o cells(t, pos + 1, end)

Tape_str(t) ==
    IF DOMAIN t.content = {}
    THEN Ellipsis \o <<t.blank, "[", t.blank, "]">> \o Ellipsis
    ELSE LET min_pos == Min(DOMAIN t.content)
             max_pos == Max(DOMAIN t.content)
             start == Max({min_pos - WindowPad, t.head - WindowHalf, -WindowLimit})
             end == Min({max_pos + WindowPad, t.head + WindowHalf, WindowLimit})
             left_ellipsis == IF start > min_pos - WindowPad THEN Ellipsis ELSE <<>>
             right_ellipsis == IF end < max_pos + WindowPad THEN Ellipsis ELSE <<>>
         IN  left_ellipsis \o cells(t, start, end) \o right_ellipsis

(***************************************************************************)
(* class TransitionFunction                                                *)
(***************************************************************************)
add(transitions, state, read_sym, next_state, write_sym, direction) ==
    [k \in (DOMAIN transitions) \cup {<<state, read_sym>>} |->
        IF k = <<state, read_sym>>
        THEN <<next_state, write_sym, direction>>
        ELSE transitions[k]]

get(transitions, state, sym) ==
    IF <<state, sym>> \in DOMAIN transitions
    THEN transitions[<<state, sym>>]
    ELSE NoTrans

(***************************************************************************)
(* class TuringMachine: the constructor and add_transition.  The mutable   *)
(* fields current_state and tape are the variables of the same name.       *)
(***************************************************************************)
TuringMachine(states, input_alphabet, tape_alphabet, initial_state, accept_states, blank) ==
    [states |-> states,
     input_alphabet |-> input_alphabet,
     tape_alphabet |-> tape_alphabet,
     initial_state |-> initial_state,
     accept_states |-> accept_states,
     reject_states |-> {"q_reject"},
     blank |-> blank,
     transition_function |-> <<>>]

add_transition(m, t) ==
    [m EXCEPT !.transition_function = add(@, t[1], t[2], t[3], t[4], t[5])]

RECURSIVE add_transitions(_, _)
add_transitions(m, ts) ==
    IF ts = <<>> THEN m
    ELSE add_transitions(add_transition(m, Head(ts)), Tail(ts))

(***************************************************************************)
(* create_on1n_machine: the recognizer of 0^n 1^n, one row per             *)
(* tm.add_transition call, in the order of the source.                     *)
(***************************************************************************)
on1n_transitions ==
    << <<"q0", "_", "q3", "_", "R">>,
       <<"q0", "0", "q1", "X", "R">>,
       <<"q0", "1", "q_reject", "1", "N">>,
       <<"q0", "X", "q0", "X", "R">>,
       <<"q0", "Y", "q3", "Y", "R">>,
       <<"q1", "0", "q1", "0", "R">>,
       <<"q1", "1", "q2", "Y", "L">>,
       <<"q1", "X", "q1", "X", "R">>,
       <<"q1", "Y", "q1", "Y", "R">>,
       <<"q1", "_", "q_reject", "_", "N">>,
       <<"q2", "_", "q0", "_", "R">>,
       <<"q2", "0", "q2", "0", "L">>,
       <<"q2", "1", "q2", "1", "L">>,
       <<"q2", "X", "q2", "X", "L">>,
       <<"q2", "Y", "q2", "Y", "L">>,
       <<"q3", "X", "q3", "X", "R">>,
       <<"q3", "Y", "q3", "Y", "R">>,
       <<"q3", "0", "q_reject", "0", "N">>,
       <<"q3", "1", "q_reject", "1", "N">>,
       <<"q3", "_", "q_accept", "_", "N">> >>

on1n_base ==
    TuringMachine(<<"q0", "q1", "q2", "q3", "q_accept", "q_reject">>,
                  <<"0", "1">>,
                  <<"0", "1", "X", "Y", "_">>,
                  "q0",
                  <<"q_accept">>,
                  "_")

create_on1n_machine_noY ==
    add_transitions(on1n_base,
                    SelectSeq(on1n_transitions, LAMBDA t : ~(t[1] = "q0" /\ t[2] = "Y")))

create_on1n_machine_runaway ==
    add_transitions(on1n_base,
                    [i \in 1..Len(on1n_transitions) |->
                        IF on1n_transitions[i][1] = "q1" /\ on1n_transitions[i][2] = "_"
                        THEN <<"q1", "_", "q1", "_", "R">>
                        ELSE on1n_transitions[i]])

create_on1n_machine == add_transitions(on1n_base, on1n_transitions)

(***************************************************************************)
(* Other machines a caller can build with the constructor and              *)
(* add_transition.  The simulator takes any table: these exercise the      *)
(* cases the recognizer above does not (a runaway head, blanks written     *)
(* over symbols, an entry for a halting state, a missing entry, an accept  *)
(* list that names q_reject).                                              *)
(***************************************************************************)
walker_machine ==
    add_transitions(
        TuringMachine(<<"q0", "q1", "q_accept", "q_reject">>, <<"0", "1">>,
                      <<"0", "1", "X", "_">>, "q0", <<"q_accept">>, "_"),
        << <<"q0", "0", "q0", "_", "R">>,
           <<"q0", "_", "q1", "_", "L">>,
           <<"q1", "_", "q1", "X", "L">>,
           <<"q0", "1", "q_reject", "1", "N">>,
           <<"q_reject", "1", "q0", "0", "R">> >>)

runner_machine ==
    add_transitions(
        TuringMachine(<<"q0", "q_accept", "q_reject">>, <<"0", "1">>,
                      <<"0", "1", "_">>, "q0", <<"q_accept">>, "_"),
        << <<"q0", "_", "q0", "_", "R">>,
           <<"q0", "0", "q0", "0", "R">>,
           <<"q0", "1", "q0", "1", "R">> >>)

overlap_machine ==
    add_transitions(
        TuringMachine(<<"q0", "q1", "q_reject">>, <<"0", "1">>,
                      <<"0", "1", "_">>, "q0", <<"q1", "q_reject">>, "_"),
        << <<"q0", "0", "q1", "1", "R">>,
           <<"q0", "1", "q_reject", "1", "N">>,
           <<"q1", "0", "q0", "0", "L">>,
           <<"q_reject", "1", "q0", "0", "R">> >>)

Machines == {create_on1n_machine, walker_machine, runner_machine, overlap_machine}

(***************************************************************************)
(* TuringMachine.load_input, step, get_config and run, as functions of     *)
(* the machine m and of its mutable fields (state, tape).  Each returns    *)
(* the value returned, the exception raised ("none" when it returns) and   *)
(* the fields as the call leaves them.                                     *)
(***************************************************************************)
allowed_no_blank(m) == Range(m.input_alphabet)

allowed(m) == Range(m.input_alphabet \o <<m.blank>>)

load_input_clears(m, state, t, input_str) ==
    IF \E i \in 1..Len(input_str) : input_str[i] \notin allowed(m)
    THEN [value |-> None, raised |-> "ValueError",
          current_state |-> m.initial_state, tape |-> Tape(<<>>, m.blank)]
    ELSE [value |-> None, raised |-> "none",
          current_state |-> m.initial_state, tape |-> Tape(input_str, m.blank)]

load_input(m, state, t, input_str) ==
    IF \E i \in 1..Len(input_str) : input_str[i] \notin allowed(m)
    THEN [value |-> None, raised |-> "ValueError", current_state |-> state, tape |-> t]
    ELSE [value |-> None, raised |-> "none",
          current_state |-> m.initial_state, tape |-> Tape(input_str, m.blank)]

halting_reject_first(m, state) ==
    IF state \in m.reject_states THEN "reject"
    ELSE IF state \in Range(m.accept_states) THEN "accept"
    ELSE "continue"

halting_accept_only(m, state) ==
    IF state \in Range(m.accept_states) THEN "accept" ELSE "continue"

halting(m, state) ==
    IF state \in Range(m.accept_states) THEN "accept"
    ELSE IF state \in m.reject_states THEN "reject"
    ELSE "continue"

step(m, state, t) ==
    LET h == halting(m, state)
    IN  IF h # "continue"
        THEN [value |-> h, raised |-> "none", current_state |-> state, tape |-> t]
        ELSE IF t = NoTape
        THEN [value |-> None, raised |-> "AttributeError",
              current_state |-> state, tape |-> t]
        ELSE LET sym == read(t)
                 trans == get(m.transition_function, state, sym)
             IN  IF trans = NoTrans
                 THEN [value |-> "reject", raised |-> "none",
                       current_state |-> state, tape |-> t]
                 ELSE [value |-> "continue", raised |-> "none",
                       current_state |-> trans[1],
                       tape |-> move(write(t, trans[2]), trans[3])]

get_config(state, t) ==
    [estado |-> state, cinta |-> Tape_str(t), cabezal |-> t.head]

run_continues_le(steps, max_steps) == steps <= max_steps

run_continues(steps, max_steps) == steps < max_steps

(* The while loop of run.  calls counts the step() calls made; printed is  *)
(* what step_by_step printed.  A head that leaves -MaxHead..MaxHead ends   *)
(* the evaluation with the value "overflow", which no action accepts.      *)
RECURSIVE run_loop(_, _, _, _, _, _, _, _)
run_loop(m, state, t, steps, max_steps, step_by_step, history, printed) ==
    IF ~run_continues(steps, max_steps)
    THEN [value |-> "loop", raised |-> "none", current_state |-> state, tape |-> t,
          history |-> history, calls |-> steps, printed |-> printed]
    ELSE LET config == get_config(state, t)
             h1 == Append(history, config)
             p1 == IF step_by_step THEN Append(printed, <<steps + 1, config>>)
                   ELSE printed
             r == step(m, state, t)
         IN  IF r.value # "continue"
             THEN [value |-> r.value, raised |-> "none",
                   current_state |-> r.current_state, tape |-> r.tape,
                   history |-> Append(h1, get_config(r.current_state, r.tape)),
                   calls |-> steps + 1, printed |-> p1]
             ELSE IF Abs(r.tape.head) > MaxHead
             THEN [value |-> "overflow", raised |-> "none",
                   current_state |-> r.current_state, tape |-> r.tape,
                   history |-> h1, calls |-> steps + 1, printed |-> p1]
             ELSE run_loop(m, r.current_state, r.tape, steps + 1, max_steps,
                           step_by_step, h1, p1)

run_trace_spends_step(m, state, t, max_steps, step_by_step) ==
    IF t = NoTape
    THEN [value |-> None, raised |-> "ValueError", current_state |-> state, tape |-> t,
          history |-> <<>>, calls |-> 0, printed |-> <<>>]
    ELSE run_loop(m, state, t, IF step_by_step THEN 1 ELSE 0, max_steps, step_by_step,
                  <<>>, <<>>)

run(m, state, t, max_steps, step_by_step) ==
    IF t = NoTape
    THEN [value |-> None, raised |-> "ValueError", current_state |-> state, tape |-> t,
          history |-> <<>>, calls |-> 0, printed |-> <<>>]
    ELSE run_loop(m, state, t, 0, max_steps, step_by_step, <<>>, <<>>)

(***************************************************************************)
(* The state machine: a caller holding one machine calls load_input, step  *)
(* and run in any order.  call is the last call made and ret what it       *)
(* returned or raised.                                                     *)
(***************************************************************************)
Seqs(S, n) == UNION {[1..k -> S] : k \in 0..n}

BinInputs == Seqs({"0", "1"}, MaxInputLen)

OtherInputs ==
    { <<"_">>, <<"a">>, <<"0", "a">>, <<"_", "0">>, <<"a", "1">>, <<"0", "_", "1">> }

Inputs == BinInputs \cup OtherInputs

Budgets == (0..MaxBudget) \cup {TestMaxSteps}

NoCall == [op |-> "new", input_str |-> <<>>, max_steps |-> 0, step_by_step |-> FALSE]

NoRet == [value |-> None, raised |-> "none", history |-> <<>>, calls |-> 0,
          printed |-> <<>>]

InBounds(t) == IF t = NoTape THEN TRUE ELSE Abs(t.head) <= MaxHead

Init ==
    /\ tm \in Machines
    /\ current_state = None
    /\ tape = NoTape
    /\ call = NoCall
    /\ ret = NoRet

LoadInput(w) ==
    \E r \in {load_input(tm, current_state, tape, w)} :
        /\ current_state' = r.current_state
        /\ tape' = r.tape
        /\ call' = [NoCall EXCEPT !.op = "load_input", !.input_str = w]
        /\ ret' = [NoRet EXCEPT !.value = r.value, !.raised = r.raised]
        /\ UNCHANGED tm

Step ==
    \E r \in {step(tm, current_state, tape)} :
        /\ InBounds(r.tape)
        /\ current_state' = r.current_state
        /\ tape' = r.tape
        /\ call' = [NoCall EXCEPT !.op = "step"]
        /\ ret' = [NoRet EXCEPT !.value = r.value, !.raised = r.raised]
        /\ UNCHANGED tm

Run(max_steps, step_by_step) ==
    \E r \in {run(tm, current_state, tape, max_steps, step_by_step)} :
        /\ r.value # "overflow"
        /\ current_state' = r.current_state
        /\ tape' = r.tape
        /\ call' = [NoCall EXCEPT !.op = "run", !.max_steps = max_steps,
                                  !.step_by_step = step_by_step]
        /\ ret' = [value |-> r.value, raised |-> r.raised, history |-> r.history,
                   calls |-> r.calls, printed |-> r.printed]
        /\ UNCHANGED tm

Next ==
    \/ \E w \in Inputs : LoadInput(w)
    \/ Step
    \/ \E max_steps \in Budgets, step_by_step \in BOOLEAN : Run(max_steps, step_by_step)

Spec == Init /\ [][Next]_vars

(***************************************************************************)
(* What the claims speak of.                                               *)
(***************************************************************************)
Loaded == tape # NoTape

(* What read() returns with the head at pos. *)
SymAt(t, pos) == read([t EXCEPT !.head = pos])

(* The positions a tape of the model can hold a symbol at, and two more on *)
(* each side.                                                              *)
Positions == (-(MaxHead + 2))..(MaxHead + MaxInputLen + 2)

Accepting(m, state) == state \in Range(m.accept_states)
Rejecting(m, state) == state \in m.reject_states
HasEntry(m, state, t) == <<state, SymAt(t, t.head)>> \in DOMAIN m.transition_function
Entry(m, state, t) == m.transition_function[<<state, SymAt(t, t.head)>>]
Delta(direction) == IF direction = "R" THEN 1 ELSE IF direction = "L" THEN -1 ELSE 0

(* C1: on a loaded machine whose state q is neither accepting nor          *)
(* rejecting and whose table has (q, s) -> (q2, w, d) for the symbol s     *)
(* under the head, step() returns 'continue'; the old head cell then reads *)
(* w, every other position reads what it read, the head moved by d         *)
(* (+1 for R, -1 for L, 0 for N) and the state is q2.                      *)
C1_StepTakesTransition ==
    [][ ( /\ call'.op = "step"
          /\ Loaded
          /\ ~Accepting(tm, current_state)
          /\ ~Rejecting(tm, current_state)
          /\ HasEntry(tm, current_state, tape) )
        => LET e == Entry(tm, current_state, tape)
           IN  /\ ret'.value = "continue"
               /\ ret'.raised = "none"
               /\ SymAt(tape', tape.head) = e[2]
               /\ \A p \in Positions \ {tape.head} : SymAt(tape', p) = SymAt(tape, p)
               /\ e[3] \in {"R", "L", "N"}
               /\ tape'.head = tape.head + Delta(e[3])
               /\ current_state' = e[1] ]_vars

(* C1 witness: a step returned 'continue' after writing a symbol other     *)
(* than the one it read, left of position 0.                               *)
C1_Witness ==
    /\ call.op = "step"
    /\ ret.value = "continue"
    /\ tape.head < -1
    /\ SymAt(tape, tape.head + 1) = "X"

(* C2: in an accept state step() returns 'accept' and changes neither the  *)
(* tape, the head nor the state, whether or not the table has an entry for *)
(* (state, symbol under the head) and whether or not the state is also a   *)
(* reject state.                                                           *)
C2_AcceptHalts ==
    [][ (call'.op = "step" /\ Accepting(tm, current_state))
        => /\ ret'.value = "accept"
           /\ ret'.raised = "none"
           /\ tape' = tape
           /\ current_state' = current_state ]_vars

(* C2 witness: step returned 'accept' in a state that is also a reject     *)
(* state and has a table entry for the symbol under the head.              *)
C2_Witness ==
    /\ call.op = "step"
    /\ ret.value = "accept"
    /\ Rejecting(tm, current_state)
    /\ HasEntry(tm, current_state, tape)

(* C3: on a loaded machine in a state that is not accepting, and that is   *)
(* rejecting or has no table entry for the symbol under the head, step()   *)
(* returns 'reject' as a value (nothing is raised) and changes neither the *)
(* tape, the head nor the state.                                           *)
C3_RejectHalts ==
    [][ ( /\ call'.op = "step"
          /\ Loaded
          /\ ~Accepting(tm, current_state)
          /\ (Rejecting(tm, current_state) \/ ~HasEntry(tm, current_state, tape)) )
        => /\ ret'.value = "reject"
           /\ ret'.raised = "none"
           /\ tape' = tape
           /\ current_state' = current_state ]_vars

(* C3 witness: step returned 'reject' in a reject state for which the      *)
(* table does have an entry.                                               *)
C3_Witness ==
    /\ call.op = "step"
    /\ ret.value = "reject"
    /\ Rejecting(tm, current_state)
    /\ HasEntry(tm, current_state, tape)

(* The first of the step() calls number i..k, made one after the other     *)
(* from (state, t), that does not return 'continue': its number and its    *)
(* value; number 0 when all of them return 'continue'.                     *)
RECURSIVE FirstHalt(_, _, _, _, _)
FirstHalt(m, state, t, i, k) ==
    IF i > k THEN [number |-> 0, value |-> "continue"]
    ELSE LET r == step(m, state, t)
         IN  IF r.value # "continue" THEN [number |-> i, value |-> r.value]
             ELSE FirstHalt(m, r.current_state, r.tape, i + 1, k)

(* C4: run(max_steps), max_steps >= 0, on a loaded machine calls step() at *)
(* most max_steps times; it returns 'loop' exactly when each of the first  *)
(* max_steps step() calls returns 'continue', and otherwise the first      *)
(* status other than 'continue' that step() returns.                       *)
C4_RunBudget ==
    [][ (call'.op = "run" /\ Loaded)
        => LET f == FirstHalt(tm, current_state, tape, 1, call'.max_steps)
           IN  /\ ret'.raised = "none"
               /\ ret'.calls <= call'.max_steps
               /\ (ret'.value = "loop") <=> (f.number = 0)
               /\ (f.number # 0) => (ret'.value = f.value /\ ret'.calls = f.number) ]_vars

(* C4 witness: a run with a budget of at least 2 used all of it and        *)
(* returned 'loop'.                                                        *)
C4_Witness ==
    /\ call.op = "run"
    /\ call.max_steps >= 2
    /\ ret.value = "loop"
    /\ ret.calls = call.max_steps

(* C5: whatever run returns on a loaded machine ('accept', 'reject' or     *)
(* 'loop'), the history it returns starts with the configuration the       *)
(* machine had when run was called and ends with the configuration the     *)
(* machine has when run returns.  Stated for the calls with a budget of at *)
(* least one step: with a budget of 0 the history is empty.                *)
C5_HistoryEndsAtFinalConfig ==
    [][ (call'.op = "run" /\ Loaded /\ call'.max_steps >= 1)
        => /\ Len(ret'.history) >= 1
           /\ ret'.history[1] = get_config(current_state, tape)
           /\ ret'.history[Len(ret'.history)] = get_config(current_state', tape') ]_vars

(* C6 as claimed: load_input(w) raises exactly when some character of w is *)
(* not in the input alphabet; the blank, which the input alphabet does not *)
(* hold, is such a character.                                              *)
C6_RejectsOutsideInputAlphabet ==
    call.op = "load_input"
    => ( (ret.raised = "ValueError")
         <=> (\E i \in 1..Len(call.input_str) :
                 call.input_str[i] \notin Range(tm.input_alphabet)) )

(* C6 as amended: load_input(w) raises exactly when some character of w is *)
(* neither in the input alphabet nor the blank symbol; it succeeds when    *)
(* every character is an input symbol or the blank.                        *)
C6_RejectsOutsideInputAlphabetOrBlank ==
    call.op = "load_input"
    => ( (ret.raised = "ValueError")
         <=> (\E i \in 1..Len(call.input_str) :
                 /\ call.input_str[i] \notin Range(tm.input_alphabet)
                 /\ call.input_str[i] # tm.blank) )

(* C6 witness: a load_input of a string holding a blank next to an input   *)
(* symbol succeeded.                                                       *)
C6_Witness ==
    /\ call.op = "load_input"
    /\ ret.raised = "none"
    /\ tm.blank \in Range(call.input_str)
    /\ "1" \in Range(call.input_str)

(* C7: in every state reached by a successful load_input(w), whatever     *)
(* calls came before it, state = start state, head = 0, position i reads   *)
(* w[i] for 0 <= i < len(w) and every other position reads blank; the      *)
(* configuration (state, rendering, head) is the one load_input(w) gives   *)
(* on a newly built machine, so it depends on w alone and repeating the    *)
(* call, in a row or after a run, gives the identical configuration.       *)
C7_LoadResets ==
    (call.op = "load_input" /\ ret.raised = "none")
    => \A fresh \in {load_input(tm, None, NoTape, call.input_str)} :
          /\ current_state = tm.initial_state
          /\ tape.head = 0
          /\ \A p \in Positions :
                SymAt(tape, p) = IF 0 <= p /\ p < Len(call.input_str)
                                 THEN call.input_str[p + 1]
                                 ELSE tm.blank
          /\ get_config(current_state, tape)
                = get_config(fresh.current_state, fresh.tape)

(* C7 witness: a load_input of a string of two or more characters, a blank *)
(* among them, succeeded.                                                  *)
C7_Witness ==
    /\ call.op = "load_input"
    /\ ret.raised = "none"
    /\ Len(call.input_str) >= 2
    /\ tm.blank \in Range(call.input_str)
    /\ tape.head = 0

(* w = 0^n 1^n for some n >= 0. *)
IsOn1n(w) ==
    \E n \in 0..Len(w) :
        /\ Len(w) = 2 * n
        /\ \A i \in 1..n : w[i] = "0" /\ w[n + i] = "1"

TestsAccepted == { <<>>, <<"0", "1">>, <<"0", "0", "1", "1">> }
TestsRejected == { <<"0", "0", "1">>, <<"1", "1", "0", "0">>, <<"0", "1", "0", "1">> }

(* C8: on the machine of create_on1n_machine, load_input(w) for w over     *)
(* {0,1} followed by run with the budget of the built-in tests returns     *)
(* 'accept' if w = 0^n 1^n and 'reject' otherwise; '', '01', '0011' are    *)
(* accepted and '001', '1100', '0101' rejected.                            *)
C8_On1nRecognizes ==
    [][ ( /\ tm = create_on1n_machine
          /\ call.op = "load_input"
          /\ ret.raised = "none"
          /\ call.input_str \in BinInputs
          /\ call'.op = "run"
          /\ call'.max_steps = TestMaxSteps )
        => /\ ret'.value = IF IsOn1n(call.input_str) THEN "accept" ELSE "reject"
           /\ call.input_str \in TestsAccepted => ret'.value = "accept"
           /\ call.input_str \in TestsRejected => ret'.value = "reject" ]_vars

(* C8 witness: the run of the recognizer on '0011' returned 'accept'.      *)
C8_Witness ==
    /\ tm = create_on1n_machine
    /\ call.op = "run"
    /\ call.max_steps = TestMaxSteps
    /\ ret.value = "accept"
    /\ ret.history[1] = get_config("q0", Tape(<<"0", "0", "1", "1">>, "_"))

(* C9: on a machine on which load_input never succeeded, run() and step()  *)
(* both fail with the error run raises, and neither changes the machine.   *)
C9_NotInitializedError ==
    (~Loaded /\ call.op \in {"run", "step"})
    => /\ ret.raised = "ValueError"
       /\ current_state = None

(* The tape t with the position under the head never written. *)
Unset(t) == [t EXCEPT !.content = delete(t.content, t.head)]

(* C10: a step that writes the blank symbol leaves a tape that read() at   *)
(* every position and get_config cannot tell from the tape on which that   *)
(* position was never written (and the head moved the same way).           *)
C10_BlankWriteIsUnset ==
    [][ ( /\ call'.op = "step"
          /\ Loaded
          /\ ret'.value = "continue"
          /\ HasEntry(tm, current_state, tape)
          /\ Entry(tm, current_state, tape)[2] = tm.blank )
        => LET never == move(Unset(tape), Entry(tm, current_state, tape)[3])
           IN  /\ \A p \in Positions : SymAt(tape', p) = SymAt(never, p)
               /\ get_config(current_state', tape') = get_config(current_state', never)
      ]_vars

(***************************************************************************)
(* The Tape on its own: a caller holding one Tape calls write, read and    *)
(* move in any order, and move(d) followed by move of the opposite         *)
(* direction as one action.  call.input_str holds the argument of the      *)
(* call; the machine plays no part.                                        *)
(***************************************************************************)
MaxTapeHead == 2

TapeSymbols == {"X", "_"}
Directions == {"L", "R", "N"}
Inverse(direction) ==
    IF direction = "L" THEN "R" ELSE IF direction = "R" THEN "L" ELSE "N"

TapeInit ==
    /\ tm = create_on1n_machine
    /\ current_state = None
    /\ tape \in {Tape(<<>>, "_"), Tape(<<"0">>, "_")}
    /\ call = NoCall
    /\ ret = NoRet

TapeWrite(sym) ==
    /\ tape' = write(tape, sym)
    /\ call' = [NoCall EXCEPT !.op = "write", !.input_str = <<sym>>]
    /\ ret' = NoRet
    /\ UNCHANGED <<tm, current_state>>

TapeRead ==
    /\ call' = [NoCall EXCEPT !.op = "read"]
    /\ ret' = [NoRet EXCEPT !.value = read(tape)]
    /\ UNCHANGED <<tm, current_state, tape>>

TapeMove(direction) ==
    /\ Abs(move(tape, direction).head) <= MaxTapeHead
    /\ tape' = move(tape, direction)
    /\ call' = [NoCall EXCEPT !.op = "move", !.input_str = <<direction>>]
    /\ ret' = NoRet
    /\ UNCHANGED <<tm, current_state>>

TapeMoveAndBack(direction) ==
    /\ tape' = move(move(tape, direction), Inverse(direction))
    /\ call' = [NoCall EXCEPT !.op = "move_back", !.input_str = <<direction>>]
    /\ ret' = NoRet
    /\ UNCHANGED <<tm, current_state>>

TapeNext ==
    \/ \E sym \in TapeSymbols : TapeWrite(sym)
    \/ TapeRead
    \/ \E direction \in Directions : TapeMove(direction)
    \/ \E direction \in {"L", "R"} : TapeMoveAndBack(direction)

TapeSpec == TapeInit /\ [][TapeNext]_vars

TapePositions == (-(MaxTapeHead + 2))..(MaxTapeHead + 2)

(* C11: at every head position, negative ones included, write(s) followed  *)
(* at once by read() returns s, for a blank s too; move('L') then          *)
(* move('R'), move('R') then move('L'), and move('N') leave the head where *)
(* it was and every position reading what it read.                         *)
C11_TapeRoundTrips ==
    [][ /\ (call.op = "write" /\ call'.op = "read") => ret'.value = call.input_str[1]
        /\ (call'.op = "move_back" \/ (call'.op = "move" /\ call'.input_str = <<"N">>))
           => /\ tape'.head = tape.head
              /\ \A p \in TapePositions : SymAt(tape', p) = SymAt(tape, p) ]_vars

(* C11 witness: a move('L') then move('R') was made with the head left of  *)
(* position 0, on a cell written earlier.                                  *)
C11_Witness ==
    /\ call.op = "move_back"
    /\ call.input_str = <<"L">>
    /\ tape.head < 0
    /\ SymAt(tape, tape.head) = "X"

(* C12: if run(k1) right after load_input(w) returned 'loop', the next     *)
(* run(k2), made without reloading, returns the verdict and leaves the     *)
(* state, tape and head that one run(k1 + k2) after load_input(w) gives,   *)
(* and the two histories one after the other are that run's history.       *)
(* The load_input(w) and run(k1) behind the present state are found by     *)
(* trying every w: the first run must have left this state and history,    *)
(* which it can only if its first snapshot (the present configuration when *)
(* k1 = 0) has the start state and head 0.                                 *)
C12_FirstRunBeganAtLoad ==
    IF call.max_steps = 0
    THEN current_state = tm.initial_state /\ tape.head = 0
    ELSE ret.history[1].estado = tm.initial_state /\ ret.history[1].cabezal = 0

C12_Resumable ==
    [][ ( /\ call.op = "run"
          /\ ret.value = "loop"
          /\ Loaded
          /\ call'.op = "run"
          /\ C12_FirstRunBeganAtLoad )
        => \A w \in Inputs :
             \A s0 \in {load_input(tm, None, NoTape, w)} :
               (s0.raised = "none")
               => \A r1 \in {run(tm, s0.current_state, s0.tape, call.max_steps,
                                 call.step_by_step)} :
                    ( /\ r1.value = "loop"
                      /\ r1.current_state = current_state
                      /\ r1.tape = tape
                      /\ r1.history = ret.history )
                    => \A r \in {run(tm, s0.current_state, s0.tape,
                                     call.max_steps + call'.max_steps,
                                     call'.step_by_step)} :
                         /\ r.value = ret'.value
                         /\ r.current_state = current_state'
                         /\ r.tape = tape'
                         /\ r.history = ret.history \o ret'.history ]_vars

(* C12 witness: a run that began in the middle of an execution (its first  *)
(* snapshot is not an initial configuration) ran to 'accept'.              *)
C12_Witness ==
    /\ call.op = "run"
    /\ ret.value = "accept"
    /\ Len(ret.history) >= 3
    /\ ret.history[1].estado # tm.initial_state
    /\ ret.history[1].cabezal # 0

(* C13: in every reachable state of every constructed machine the accept   *)
(* set and the reject set {'q_reject'} are disjoint, whatever accept       *)
(* states the caller gave the constructor.                                 *)
C13_AcceptRejectDisjoint ==
    Range(tm.accept_states) \cap tm.reject_states = {}

(* C14: for the same machine state and max_steps, run with step_by_step    *)
(* on (every prompt acknowledged) and run with it off return the same      *)
(* verdict and the same history, make the same number of step() calls and  *)
(* leave the same state, tape and head; what trace mode prints is the      *)
(* history's configurations, numbered from 1, one per step() call.         *)
C14_TraceIsSideChannel ==
    [][ (call'.op = "run" /\ Loaded)
        => \A other \in {run(tm, current_state, tape, call'.max_steps,
                             ~call'.step_by_step)} :
             /\ other.value = ret'.value
             /\ other.history = ret'.history
             /\ other.calls = ret'.calls
             /\ other.current_state = current_state'
             /\ other.tape = tape'
             /\ IF call'.step_by_step
                THEN /\ Len(ret'.printed) = ret'.calls
                     /\ \A i \in 1..Len(ret'.printed) :
                           ret'.printed[i] = <<i, ret'.history[i]>>
                ELSE ret'.printed = <<>> ]_vars

(* C14 witness: a run in trace mode printed three or more configurations   *)
(* and ended with a verdict.                                               *)
C14_Witness ==
    /\ call.op = "run"
    /\ call.step_by_step
    /\ Len(ret.printed) >= 3
    /\ ret.value \in {"accept", "reject"}

(* C15: when run(max_steps), max_steps >= 1, returns 'loop', the machine's *)
(* state on return is neither an accept state nor a reject state.          *)
C15_LoopMeansNotHalted ==
    (call.op = "run" /\ Loaded /\ call.max_steps >= 1 /\ ret.value = "loop")
    => (~Accepting(tm, current_state) /\ ~Rejecting(tm, current_state))

(* How many times character c occurs in the string s. *)
Count(s, c) == Cardinality({i \in 1..Len(s) : s[i] = c})

(* C16: in every configuration reached by load_input and any number of     *)
(* steps, the window the rendering shows holds the head position: the      *)
(* rendering get_config returns has exactly one bracketed cell.            *)
C16_HeadInWindow ==
    Loaded => /\ Count(get_config(current_state, tape).cinta, "[") = 1
              /\ Count(get_config(current_state, tape).cinta, "]") = 1

(* C17: for every verdict of run(max_steps), max_steps >= 1, the step      *)
(* count the CLI prints, len(history) - 1, is the number of step() calls   *)
(* run made, and the final configuration it prints, history[-1], is the    *)
(* machine's configuration when run returned.                              *)
C17_CliStepCount ==
    (call.op = "run" /\ Loaded /\ call.max_steps >= 1)
    => /\ Len(ret.history) - 1 = ret.calls
       /\ ret.history[Len(ret.history)] = get_config(current_state, tape)


(* A loaded machine is halted when its state is accepting or rejecting or  *)
(* the table has no entry for its state and the symbol under the head; the *)
(* verdict of a halted machine is 'accept' in an accepting state and       *)
(* 'reject' otherwise.                                                     *)
Halted(m, state, t) ==
    Accepting(m, state) \/ Rejecting(m, state) \/ ~HasEntry(m, state, t)

Verdict(m, state) == IF Accepting(m, state) THEN "accept" ELSE "reject"

(* C18: terminal verdicts are absorbing.  A step() of a loaded machine     *)
(* that returns 'accept' or 'reject' leaves the machine halted with that   *)
(* verdict; on a halted machine every step() returns the verdict again and *)
(* every step() and run() leaves state, tape and head as they were; a      *)
(* run(max_steps >= 1) returns the verdict with a history of exactly two   *)
(* identical entries.                                                      *)
C18_VerdictsAbsorbing ==
    [][ /\ ( /\ call'.op = "step"
             /\ Loaded
             /\ ret'.value \in {"accept", "reject"} )
           => /\ Halted(tm, current_state', tape')
              /\ Verdict(tm, current_state') = ret'.value
        /\ ( /\ call'.op \in {"step", "run"}
             /\ Loaded
             /\ Halted(tm, current_state, tape) )
           => /\ tape' = tape
              /\ current_state' = current_state
              /\ call'.op = "step" => ret'.value = Verdict(tm, current_state)
              /\ (call'.op = "run" /\ call'.max_steps >= 1)
                 => /\ ret'.value = Verdict(tm, current_state)
                    /\ Len(ret'.history) = 2
                    /\ ret'.history[1] = ret'.history[2]
                    /\ ret'.history[2] = get_config(current_state, tape)
      ]_vars

(* A run on a machine that had halted in an accepting state away from the  *)
(* start of the tape: the verdict again, two identical history entries.    *)
C18_Witness ==
    /\ call.op = "run"
    /\ call.max_steps >= 1
    /\ Loaded
    /\ ret.value = "accept"
    /\ ret.calls = 1
    /\ Len(ret.history) = 2
    /\ ret.history[1] = ret.history[2]
    /\ tape.head # 0


(* C19: a load_input(w) that raises ValueError leaves the machine as it    *)
(* was: the tape (contents and head) and the current state are unchanged,  *)
(* so a following step() or run() continues the previous execution.        *)
C19_FailedLoadKeepsMachine ==
    [][ (call'.op = "load_input" /\ ret'.raised = "ValueError")
        => /\ tape' = tape
           /\ current_state' = current_state
           /\ tm' = tm
      ]_vars

(* A rejected load_input on a machine that is in the middle of a run.      *)
C19_Witness ==
    /\ call.op = "load_input"
    /\ ret.raised = "ValueError"
    /\ Loaded
    /\ tape.head # 0
    /\ current_state # tm.initial_state
    /\ ~Halted(tm, current_state, tape)


(***************************************************************************)
(* The recognizer driven as the built-in tests drive it: one machine from  *)
(* create_on1n_machine, an input over {0,1} loaded, then step() called     *)
(* until it returns a verdict, or run called with the tests' budget, and   *)
(* the next input loaded once a verdict is in.  A caller who keeps calling *)
(* step() is the weak fairness of Step.                                    *)
(***************************************************************************)
Verdicts == {"accept", "reject"}

HaltInit ==
    /\ tm = create_on1n_machine
    /\ current_state = None
    /\ tape = NoTape
    /\ call = NoCall
    /\ ret = NoRet

HaltLoad(w) ==
    /\ IF Loaded THEN call.op = "step" /\ ret.value \in Verdicts ELSE TRUE
    /\ LoadInput(w)

HaltStep == Loaded /\ Step

HaltRun == Loaded /\ Run(TestMaxSteps, FALSE)

HaltNext ==
    \/ \E w \in BinInputs : HaltLoad(w)
    \/ HaltStep
    \/ HaltRun

HaltSpec == HaltInit /\ [][HaltNext]_vars /\ WF_vars(HaltStep)

(* C20: the machine of create_on1n_machine halts on every input over       *)
(* {0,1}: once an input is loaded, repeated step() calls eventually return *)
(* 'accept' or 'reject', and run with the budget of the built-in tests     *)
(* never returns 'loop'.                                                   *)
C20_On1nHalts ==
    /\ Loaded ~> (call.op = "step" /\ ret.value \in Verdicts)
    /\ [](call.op = "run" => ret.value \in Verdicts)

(* step() returned 'accept' after the recognizer had matched two 0s with   *)
(* two 1s.                                                                 *)
C20_Witness ==
    /\ tm = create_on1n_machine
    /\ call.op = "step"
    /\ ret.value = "accept"
    /\ \A i \in 0..3 : SymAt(tape, i) = IF i < 2 THEN "X" ELSE "Y"

====
